---- MODULE Spec2Model ----
(***************************************************************************)
(* BI office hours participants (src/app.py): the biweekly-Friday date     *)
(* rule, the rotation selector, the session ledger, the roster editor and  *)
(* the cached load of the two tables from the local spreadsheet.           *)
(*                                                                         *)
(* Dates are proleptic Gregorian ordinals (datetime.date.toordinal()).     *)
(* Tables are sequences of rows in storage order.                          *)
(***************************************************************************)
EXTENDS Integers, Sequences, FiniteSets, TLC

VARIABLES
    fileExists,          \* os.path.exists(LOCAL_FILE_PATH)
    sheet_participants,  \* sheet "participants" of the workbook on disk
    sheet_sessions,      \* sheet "session_history" of the workbook on disk
    cache_valid,         \* st.cache_data holds an entry for get_data()
    cache_value,         \* the cached <<participants_df, session_df>>
    selectbox_page,      \* page of the last script run
    button,              \* the button clicked in the last script run
    participants_df,     \* the script's roster table at the end of the run
    session_df,          \* the script's ledger table at the end of the run
    today,               \* dt.date.today() of the last script run
    next_friday_default, \* get_next_friday(today)
    available_team,      \* st.multiselect value of the last assign click
    next_date,           \* st.date_input value of the last assign click
    next_participants,   \* result of get_next_participants in the last run
    outcome,             \* what the last run showed: warning, success, ...
    chart_shown,         \* the frequency chart was rendered in the last run
    frequency_df,        \* the rendered Participant -> count table
    history,             \* selector harness: ledger given to the selector
    available,           \* selector harness: available names
    window,              \* selector harness: threshold argument
    picked,              \* selector harness: outcome of the selector
    entered,             \* ledger harness: the ledger after the new entry
    counted              \* ledger harness: the frequency table of entered

vars == <<fileExists, sheet_participants, sheet_sessions, cache_valid,
          cache_value, selectbox_page, button, participants_df, session_df,
          today, next_friday_default, available_team, next_date,
          next_participants, outcome, chart_shown, frequency_df,
          history, available, window, picked, entered, counted>>

appVars == <<fileExists, sheet_participants, sheet_sessions, cache_valid,
             cache_value, selectbox_page, button, participants_df,
             session_df, available_team, next_date, next_participants,
             outcome, chart_shown, frequency_df>>

dateVars == <<today, next_friday_default>>

selVars == <<history, available, window, picked, entered, counted>>

(***************************************************************************)
(* Bounds of the model.                                                    *)
(***************************************************************************)
MaxRoster == 2      \* rows the roster editor can hold
MaxLedger == 2      \* session records the ledger can hold
MaxHistory == 2     \* records of a ledger handed to a function on its own
DayWindow == 60     \* days before and after the anchor that today ranges over

NameSeq == <<"A", "B", "C", "D", "E">>   \* participant names, alphabetical

Names == {NameSeq[i] : i \in 1..Len(NameSeq)}

Team == {"A", "B", "C"}                  \* names typed into the roster editor

Veterans == {"A", "B", "C", "D"}         \* names on the ledgers of the harnesses

Range(s) == {s[i] : i \in 1..Len(s)}

Min(a, b) == IF a < b THEN a ELSE b

SeqsUpTo(S, n) == UNION {[1..k -> S] : k \in 0..n}

(***************************************************************************)
(* Date Scheduler                                                          *)
(***************************************************************************)
ReferenceOrdinal == 738890    \* dt.date(2024, 1, 5).toordinal()

\* date.weekday(): Monday is 0, Sunday is 6
weekday(d) == (d + 6) % 7

get_next_friday(t) ==
    LET days_until_next_friday == (4 - weekday(t)) % 7
        next_friday == t + days_until_next_friday
    IN  IF (next_friday - ReferenceOrdinal) % 14 # 0
        THEN next_friday + 14
        ELSE next_friday

Days == (ReferenceOrdinal - DayWindow)..(ReferenceOrdinal + DayWindow)

(***************************************************************************)
(* Local file storage                                                      *)
(***************************************************************************)
EmptyTables == <<<<>>, <<>>>>

\* A spreadsheet date cell comes back from read_excel as a midnight timestamp.
Timestamp(d) == <<d, 0>>

\* Series.dt.date: the date part of a timestamp
dt_date(ts) == ts[1]

\* prepare_xlsx: one sheet per table; to_excel writes a date as a date-time cell
prepare_xlsx(p_df, s_df) ==
    [participants |-> p_df,
     session_history |->
        [i \in 1..Len(s_df) |-> [s_df[i] EXCEPT !.date = Timestamp(@)]]]

\* the body of get_data: both sheets, or two empty tables without a file,
\* then the date column parsed back to dates
read_tables ==
    LET raw == IF fileExists
               THEN <<sheet_participants, sheet_sessions>>
               ELSE EmptyTables
    IN  <<raw[1],
          [i \in 1..Len(raw[2]) |-> [raw[2][i] EXCEPT !.date = dt_date(@)]]>>

\* @st.cache_data get_data(): the cached entry when there is one
get_data == IF cache_valid THEN cache_value ELSE read_tables

\* variant: the cached entry survives the click
cache_data_kept(valid) == valid

\* st.cache_data.clear(): whether an entry is left afterwards
cache_data_clear(valid) == FALSE

(***************************************************************************)
(* Rotation Selector                                                       *)
(***************************************************************************)
threshold == 3

ValueError == <<"ValueError">>

\* pd.concat([session_df["participant_1"], session_df["participant_2"]]),
\* or an empty series for an empty ledger
concat_columns(s_df) ==
    [i \in 1..Len(s_df) |-> s_df[i].participant_1]
        \o [i \in 1..Len(s_df) |-> s_df[i].participant_2]

\* Series.unique(): the values in order of first appearance
RECURSIVE unique(_)
unique(s) ==
    IF s = <<>> THEN <<>>
    ELSE LET u == unique(SubSeq(s, 1, Len(s) - 1))
             x == s[Len(s)]
         IN  IF x \in Range(u) THEN u ELSE Append(u, x)

\* lst[:n] for n >= 0
head_slice(s, n) == SubSeq(s, 1, Min(n, Len(s)))

\* random.sample(population, 2): every ordered choice of two positions,
\* ValueError when the population has fewer than two elements
random_sample(population) ==
    IF Len(population) < 2
    THEN {ValueError}
    ELSE {<<population[i], population[j]>> :
            <<i, j>> \in {ij \in (1..Len(population)) \X (1..Len(population)) :
                            ij[1] # ij[2]}}

\* variant: the slice taken before the duplicates are dropped
prev_participants_sliced_first(df, n) == unique(head_slice(df, n))

\* df.unique().tolist()[:threshold]
prev_participants(df, n) == head_slice(unique(df), n)

candidates(df, team, n) ==
    LET prev == Range(prev_participants(df, n))
        keep(p) == p \notin prev
    IN  SelectSeq(team, keep)

\* the set of results get_next_participants can return
get_next_participants(df, team, n) == random_sample(candidates(df, team, n))

(***************************************************************************)
(* History Ledger                                                          *)
(***************************************************************************)
\* variant: the new record goes to the front
add_participants_entry_first(df, pair, date) ==
    <<[date |-> date, participant_1 |-> pair[1], participant_2 |-> pair[2]]>> \o df

\* pd.concat([df, pd.DataFrame([insert_row])], ignore_index=True)
add_participants_entry(df, pair, date) ==
    Append(df, [date |-> date, participant_1 |-> pair[1],
                participant_2 |-> pair[2]])

\* variant: only the first participant column is melted
melt_first_column(s_df) == [i \in 1..Len(s_df) |-> s_df[i].participant_1]

\* session_df.melt(value_vars=["participant_1", "participant_2"]).Participant
melt(s_df) ==
    [i \in 1..Len(s_df) |-> s_df[i].participant_1]
        \o [i \in 1..Len(s_df) |-> s_df[i].participant_2]

\* melted_df.groupby("Participant").size()
frequency(s_df) ==
    LET melted == melt(s_df)
    IN  [n \in Range(melted) |->
            Cardinality({i \in 1..Len(melted) : melted[i] = n})]

NoChart == [n \in {} |-> 0]

(***************************************************************************)
(* Roster                                                                  *)
(***************************************************************************)
RosterRows == [participant : Team, is_active : BOOLEAN]

RemoveAt(s, i) == SubSeq(s, 1, i - 1) \o SubSeq(s, i + 1, Len(s))

\* st.data_editor(participants_df, num_rows="dynamic"): the table left as it
\* is, or with a row added at the bottom, a row deleted, a name retyped or
\* an isActive box flipped
data_editor(df) ==
    {df}
    \cup {Append(df, r) : r \in {x \in RosterRows : Len(df) < MaxRoster}}
    \cup {RemoveAt(df, i) : i \in 1..Len(df)}
    \cup {[df EXCEPT ![i].is_active = ~@] : i \in 1..Len(df)}
    \cup {[df EXCEPT ![ij[1]].participant = ij[2]] : ij \in (1..Len(df)) \X Team}

Rank(n) == CHOOSE i \in 1..Len(NameSeq) : NameSeq[i] = n

IsSortedByName(df) ==
    \A i \in 1..Len(df) - 1 : Rank(df[i].participant) <= Rank(df[i + 1].participant)

Permutations1(n) == {f \in [1..n -> 1..n] : \A i, j \in 1..n : f[i] = f[j] => i = j}

\* sort_values("participant", ignore_index=True): the rows ordered by name;
\* the default sort kind does not promise an order among equal names
sort_values(df) ==
    {r \in {[i \in 1..Len(df) |-> df[f[i]]] : f \in Permutations1(Len(df))} :
        IsSortedByName(r)}

\* the elements of s at the positions in I, in order
RECURSIVE AtPositions(_, _)
AtPositions(s, I) ==
    IF s = <<>> THEN <<>>
    ELSE LET rest == AtPositions(SubSeq(s, 1, Len(s) - 1), I)
         IN  IF Len(s) \in I THEN Append(rest, s[Len(s)]) ELSE rest

\* participants_df["participant"][participants_df["is_active"] == True].tolist()
active_participants(p_df) ==
    LET on == {i \in 1..Len(p_df) : p_df[i].is_active = TRUE}
        rows == AtPositions(p_df, on)
    IN  [i \in 1..Len(rows) |-> rows[i].participant]

\* st.multiselect(label, options, default): the options at the chosen positions
multiselect(options) == {AtPositions(options, I) : I \in SUBSET (1..Len(options))}

(***************************************************************************)
(* The application: one action per script run                              *)
(***************************************************************************)
\* the day the application is used on (the day after the anchor, so that
\* next_friday_default differs from today)
SessionDays == {ReferenceOrdinal + 1}

\* lines 80-81 of every script run
Prologue(t) ==
    /\ today' = t
    /\ next_friday_default' = get_next_friday(t)
    /\ UNCHANGED selVars

\* lines 110-130: the history table and the frequency chart
Display(s_df) ==
    /\ chart_shown' = (s_df # <<>>)
    /\ frequency_df' = IF s_df # <<>> THEN frequency(s_df) ELSE NoChart

NoAssignment ==
    /\ available_team' = <<>>
    /\ next_date' = next_friday_default'
    /\ next_participants' = <<>>

StoreUnchanged == UNCHANGED <<fileExists, sheet_participants, sheet_sessions>>

\* save_local_file: the workbook replaces the file
save_local_file(p_df, s_df) ==
    LET book == prepare_xlsx(p_df, s_df)
    IN  /\ fileExists' = TRUE
        /\ sheet_participants' = book.participants
        /\ sheet_sessions' = book.session_history

\* The Assign Participants page without a click.
AssignView ==
    \E t \in SessionDays :
        LET loaded == get_data
        IN  /\ Prologue(t)
            /\ selectbox_page' = "assign"
            /\ button' = "none"
            /\ participants_df' = loaded[1]
            /\ session_df' = loaded[2]
            /\ cache_valid' = TRUE
            /\ cache_value' = loaded
            /\ NoAssignment
            /\ outcome' = "none"
            /\ Display(loaded[2])
            /\ StoreUnchanged

\* The "Assign Participants!" button (lines 94-107), then the display.
\* The date field is left at its default.  The "Save Results" checkbox is
\* created by the click run itself, so it has its default, True.  The ledger
\* stops growing at MaxLedger records.
AssignClick ==
    \E t \in SessionDays :
        LET loaded == get_data
            p_df == loaded[1]
            s_df == loaded[2]
            participants == active_participants(p_df)
        IN  /\ Prologue(t)
            /\ selectbox_page' = "assign"
            /\ button' = "assign"
            /\ participants_df' = p_df
            /\ available_team' \in multiselect(participants)
            /\ next_date' = next_friday_default'
            /\ cache_valid' = cache_data_clear(TRUE)
            /\ cache_value' = IF cache_valid' THEN loaded ELSE EmptyTables
            /\ IF Len(available_team') < 2
               THEN /\ outcome' = "warning"
                    /\ next_participants' = <<>>
                    /\ session_df' = s_df
                    /\ Display(s_df)
                    /\ StoreUnchanged
               ELSE \E r \in get_next_participants(
                                IF s_df # <<>> THEN concat_columns(s_df) ELSE <<>>,
                                available_team', threshold) :
                        IF r = ValueError
                        THEN \* the exception ends the script run
                             /\ outcome' = "ValueError"
                             /\ next_participants' = <<>>
                             /\ session_df' = s_df
                             /\ chart_shown' = FALSE
                             /\ frequency_df' = NoChart
                             /\ StoreUnchanged
                        ELSE /\ Len(s_df) < MaxLedger
                             /\ next_participants' = r
                             /\ session_df' = add_participants_entry(s_df, r, next_date')
                             /\ save_local_file(p_df, session_df')
                             /\ outcome' = "success"
                             /\ Display(session_df')

\* The Session History page.
HistoryView ==
    \E t \in SessionDays :
        LET loaded == get_data
        IN  /\ Prologue(t)
            /\ selectbox_page' = "history"
            /\ button' = "none"
            /\ participants_df' = loaded[1]
            /\ session_df' = loaded[2]
            /\ cache_valid' = TRUE
            /\ cache_value' = loaded
            /\ NoAssignment
            /\ outcome' = "none"
            /\ chart_shown' = FALSE
            /\ frequency_df' = NoChart
            /\ StoreUnchanged

\* The Add Participants page without a click.
AddView ==
    \E t \in SessionDays :
        LET loaded == get_data
        IN  /\ Prologue(t)
            /\ selectbox_page' = "add"
            /\ button' = "none"
            /\ participants_df' = loaded[1]
            /\ session_df' = loaded[2]
            /\ cache_valid' = TRUE
            /\ cache_value' = loaded
            /\ NoAssignment
            /\ outcome' = "none"
            /\ chart_shown' = FALSE
            /\ frequency_df' = NoChart
            /\ StoreUnchanged

\* The Save button of the roster editor (lines 156-169), one edit per save.
AddSave ==
    \E t \in SessionDays :
      LET loaded == get_data
      IN  \E edited_df \in data_editor(loaded[1]) :
            /\ Prologue(t)
            /\ selectbox_page' = "add"
            /\ button' = "save"
            /\ participants_df' \in sort_values(edited_df)
            /\ session_df' = loaded[2]
            /\ save_local_file(participants_df', session_df')
            /\ cache_valid' = cache_data_clear(TRUE)
            /\ cache_value' = IF cache_valid' THEN loaded ELSE EmptyTables
            /\ NoAssignment
            /\ outcome' = "saved"
            /\ chart_shown' = FALSE
            /\ frequency_df' = NoChart

AppInit ==
    /\ fileExists = FALSE
    /\ sheet_participants = <<>>
    /\ sheet_sessions = <<>>
    /\ cache_valid = FALSE
    /\ cache_value = EmptyTables
    /\ selectbox_page = "assign"
    /\ button = "none"
    /\ participants_df = <<>>
    /\ session_df = <<>>
    /\ available_team = <<>>
    /\ next_date = get_next_friday(ReferenceOrdinal)
    /\ next_participants = <<>>
    /\ outcome = "none"
    /\ chart_shown = FALSE
    /\ frequency_df = NoChart

DateInit ==
    /\ today = ReferenceOrdinal
    /\ next_friday_default = get_next_friday(ReferenceOrdinal)

SelInit ==
    /\ history = <<>>
    /\ available = <<>>
    /\ window = threshold
    /\ picked = <<>>
    /\ entered = <<>>
    /\ counted = NoChart

Init == AppInit /\ DateInit /\ SelInit

Next ==
    \/ AssignView
    \/ AssignClick
    \/ HistoryView
    \/ AddView
    \/ AddSave

Spec == Init /\ [][Next]_vars

(***************************************************************************)
(* The date rule on its own: every today of the window                     *)
(***************************************************************************)

\* a script run on another day (lines 80-81)
NewDay ==
    /\ \E t \in Days : Prologue(t)
    /\ UNCHANGED appVars

SpecDate == Init /\ [][NewDay]_vars

(***************************************************************************)
(* The selector on its own: every ledger, available set and window         *)
(***************************************************************************)
\* the pairs a ledger of the harness can hold
Pairs == {pq \in Veterans \X Veterans : pq[1] # pq[2]}

AsLedger(ps) ==
    [i \in 1..Len(ps) |-> [date |-> ReferenceOrdinal, participant_1 |-> ps[i][1],
                           participant_2 |-> ps[i][2]]]

ScenarioLedger == AsLedger(<<<<"A", "B">>, <<"C", "D">>, <<"A", "C">>>>)

Ledgers == {AsLedger(ps) : ps \in SeqsUpTo(Pairs, MaxHistory)} \cup {ScenarioLedger}

InitSelect ==
    /\ AppInit
    /\ DateInit
    /\ history \in Ledgers
    /\ available \in multiselect(NameSeq)
    /\ window \in 1..threshold
    /\ picked = <<>>
    /\ entered = <<>>
    /\ counted = NoChart

\* get_next_participants on the harness inputs, as line 99 calls it
Select ==
    /\ picked = <<>>
    /\ picked' \in get_next_participants(
                        IF history # <<>> THEN concat_columns(history) ELSE <<>>,
                        available, window)
    /\ UNCHANGED <<history, available, window, entered, counted>>
    /\ UNCHANGED appVars
    /\ UNCHANGED dateVars

SpecSelect == InitSelect /\ [][Select]_vars

(***************************************************************************)
(* The ledger functions on their own: every ledger and every new pair       *)
(***************************************************************************)
NewPairs == {pq \in Names \X Names : pq[1] # pq[2]}

InitLedger ==
    /\ AppInit
    /\ DateInit
    /\ history \in Ledgers
    /\ available = <<>>
    /\ window = threshold
    /\ picked = <<>>
    /\ entered = <<>>
    /\ counted = NoChart

\* add_participants_entry as line 105 calls it, then the frequency table of
\* lines 120-121
AddEntry ==
    /\ picked = <<>>
    /\ picked' \in NewPairs
    /\ entered' = add_participants_entry(history, picked', next_friday_default)
    /\ counted' = frequency(entered')
    /\ UNCHANGED <<history, available, window>>
    /\ UNCHANGED appVars
    /\ UNCHANGED dateVars

SpecLedger == InitLedger /\ [][AddEntry]_vars

(***************************************************************************)
(* Date Scheduler properties (under SpecDate)                              *)
(***************************************************************************)
IsFriday(d) == weekday(d) = 4

OnCadence(d) == (d - ReferenceOrdinal) % 14 = 0

\* C1: for every today, get_next_friday(today) is a Friday, is on or after
\* today, and lies a multiple of 14 days from the anchor 2024-01-05.
C1_FridayOnCadence ==
    /\ IsFriday(next_friday_default)
    /\ next_friday_default >= today
    /\ OnCadence(next_friday_default)

\* C6: for every today, get_next_friday(today) is the earliest date on or
\* after today that is a Friday of the biweekly cadence; an in-cadence
\* Friday maps to itself.
C6_EarliestCadenceFriday ==
    /\ next_friday_default >= today
    /\ IsFriday(next_friday_default) /\ OnCadence(next_friday_default)
    /\ \A d \in today..(next_friday_default - 1) : ~(IsFriday(d) /\ OnCadence(d))
    /\ (IsFriday(today) /\ OnCadence(today)) => next_friday_default = today

(***************************************************************************)
(* Rotation Selector properties (under SpecSelect)                         *)
(***************************************************************************)
IsPair(r) == r # ValueError /\ Len(r) = 2

\* the flattened ledger, record by record: p1, p2, p1, p2, ...
Interleaved(h) ==
    [k \in 1..(2 * Len(h)) |->
        IF k % 2 = 1 THEN h[(k + 1) \div 2].participant_1
                     ELSE h[k \div 2].participant_2]

\* the first w entries of the record-by-record flattening
InterleavedRecent(h, w) == {Interleaved(h)[k] : k \in 1..Min(w, 2 * Len(h))}

\* position of the first appearance of n, all of column participant_1
\* counted before all of column participant_2 (0: n does not appear)
FirstInColumns(h, n) ==
    LET at == {i \in 1..Len(h) : h[i].participant_1 = n}
                \cup {Len(h) + i : i \in {j \in 1..Len(h) : h[j].participant_2 = n}}
    IN  IF at = {} THEN 0 ELSE CHOOSE k \in at : \A m \in at : k <= m

\* the first w distinct names in column order
ColumnRecent(h, w) ==
    {n \in Names :
        /\ FirstInColumns(h, n) > 0
        /\ Cardinality({m \in Names : /\ FirstInColumns(h, m) > 0
                                      /\ FirstInColumns(h, m) < FirstInColumns(h, n)})
             < w}

PickedFrom(recent) ==
    /\ IsPair(picked)
    /\ picked[1] # picked[2]
    /\ {picked[1], picked[2]} \subseteq Range(available) \ recent

Reverse(s) == [k \in 1..Len(s) |-> s[Len(s) + 1 - k]]

\* the last w distinct names of the record-by-record flattened ledger
MostRecentNames(h, w) == Range(head_slice(unique(Reverse(Interleaved(h))), w))

\* h is a ledger assign actions can have produced: every record holds two
\* names that the selector did not exclude when the record was added
ProducedByAssigns(h) ==
    \A i \in 1..Len(h) :
        /\ h[i].participant_1 # h[i].participant_2
        /\ {h[i].participant_1, h[i].participant_2}
             \cap Range(prev_participants(concat_columns(SubSeq(h, 1, i - 1)), threshold))
             = {}

\* C5: on a ledger produced by assign actions the names excluded from the
\* next selection are the 3 most recently appearing names, so the next pair
\* holds no participant of the most recent record.
C5_ExcludesMostRecent ==
    (IsPair(picked) /\ window = threshold /\ history # <<>> /\ ProducedByAssigns(history))
        => /\ Range(prev_participants(concat_columns(history), window))
                = MostRecentNames(history, window)
           /\ {picked[1], picked[2]}
                \cap {history[Len(history)].participant_1,
                      history[Len(history)].participant_2} = {}

(***************************************************************************)
(* History Ledger properties (under SpecLedger)                            *)
(***************************************************************************)
CountIn(f, n) == IF n \in DOMAIN f THEN f[n] ELSE 0

Appearances(h, n) ==
    Cardinality({i \in 1..Len(h) : h[i].participant_1 = n})
        + Cardinality({i \in 1..Len(h) : h[i].participant_2 = n})

\* C9: appending a pair of two distinct names raises the frequency of each
\* of the two by exactly 1 and leaves every other count as it was; a count
\* is the name's number of appearances over both participant columns.
C9_FrequencyAfterAppend ==
    picked # <<>> =>
        LET before == frequency(history)
            pair == {picked[1], picked[2]}
        IN  /\ DOMAIN counted = DOMAIN before \cup pair
            /\ \A n \in DOMAIN counted :
                  /\ counted[n] = CountIn(before, n) + (IF n \in pair THEN 1 ELSE 0)
                  /\ counted[n] = Appearances(entered, n)
            /\ \A n \in DOMAIN before : before[n] = Appearances(history, n)

C9_Witness ==
    /\ Len(history) = 2
    /\ history[1].participant_1 = history[2].participant_2
    /\ picked = <<history[1].participant_1, "E">>
    /\ counted[picked[1]] = 3
    /\ counted["E"] = 1

(***************************************************************************)
(* Application properties (under Spec)                                     *)
(***************************************************************************)
\* the ledger a workbook sheet holds, dates decoded
LedgerOf(sheet) == [i \in 1..Len(sheet) |-> [sheet[i] EXCEPT !.date = dt_date(@)]]

IsPrefix(s, t) == Len(s) <= Len(t) /\ SubSeq(t, 1, Len(s)) = s

NoDuplicates(s) == \A i, j \in 1..Len(s) : s[i] = s[j] => i = j

\* C3: an assign click with fewer than 2 available names outside the
\* recently-used set ends in a warning, and leaves ledger, roster and
\* store unchanged (stated for available names that are pairwise distinct).
C3_InsufficientIsWarning ==
    [][(/\ button' = "assign"
        /\ NoDuplicates(available_team')
        /\ Len(candidates(concat_columns(get_data[2]), available_team', threshold)) < 2)
          => (/\ outcome' = "warning"
              /\ participants_df' = get_data[1]
              /\ session_df' = get_data[2]
              /\ UNCHANGED <<fileExists, sheet_participants, sheet_sessions>>)]_vars

\* C4: every session record of the ledger has participant_1 # participant_2.
C4_DistinctPair ==
    \A i \in 1..Len(sheet_sessions) :
        sheet_sessions[i].participant_1 # sheet_sessions[i].participant_2

\* C7: the ledger only grows at its end: a saved assign appends exactly the
\* chosen date and pair, every other action leaves the ledger as it was.
C7_AppendOnly ==
    [][LET before == LedgerOf(sheet_sessions)
           after == LedgerOf(sheet_sessions')
       IN  /\ IsPrefix(before, after)
           /\ IF button' = "assign" /\ outcome' = "success"
              THEN after = Append(before, [date |-> next_date',
                                           participant_1 |-> next_participants'[1],
                                           participant_2 |-> next_participants'[2]])
              ELSE after = before]_vars

C7_Witness ==
    /\ button = "save"
    /\ Len(sheet_sessions) = MaxLedger
    /\ sheet_participants # <<>>

\* C8: after an edit-roster save the roster has unique names and is sorted
\* alphabetically by name.
C8_UniqueSorted ==
    button = "save" =>
        /\ IsSortedByName(sheet_participants)
        /\ \A i, j \in 1..Len(sheet_participants) :
              sheet_participants[i].participant = sheet_participants[j].participant
                  => i = j

\* C10: what get_data returns to the next script run is what the store
\* holds; after a saving run it is the pair of tables that run wrote.
C10_CacheFresh ==
    /\ get_data = read_tables
    /\ outcome \in {"success", "saved"} => get_data = <<participants_df, session_df>>

C10_Witness ==
    /\ cache_valid
    /\ selectbox_page = "history"
    /\ Len(cache_value[2]) = MaxLedger
    /\ cache_value[1] # <<>>

====
